---- MODULE Spec2Model ----
(***************************************************************************)
(* Model of onos_ric_sdk_py/__init__.py: run(main, path, app) wires the    *)
(* user's coroutine into an aiohttp application, merges the default routes *)
(* into it, registers the two cleanup contexts run_main and run_listener   *)
(* and hands the application to web.run_app.  The event loop is            *)
(* single-threaded and cooperative: a background task makes a step only    *)
(* while the coroutine that drives the application is suspended.           *)
(***************************************************************************)
EXTENDS Integers, Sequences, FiniteSets, TLC

VARIABLES
    main,           \* what the caller passed as main (kind of value)
    appArg,         \* "none" when run() got app=None, "app" for a caller's application
    callerRoutes,   \* routes the caller registered on its application, in order
    pc,             \* position of run() / web.run_app
    coro,           \* state of the coroutine object held in app["main"]
    appCreated,     \* run() built the web.Application itself (line 52)
    appKeys,        \* keys stored in the application container
    resources,      \* the router's resource list (path, methods), in order
    named,          \* pairs listed in the DuplicateRouteError message
    cleanup_ctx,    \* app.cleanup_ctx: registered hooks, in order
    exits,          \* hooks whose startup step has completed, in order
    tdBegun,        \* hooks whose teardown step has begun, in order
    tdDone,         \* hooks whose teardown step has completed, in order
    errors,         \* exceptions the teardown steps let out, in order
    task,           \* the task each hook created: state, exc, cancel requested
    mainRan,        \* the body of the caller's coroutine has executed under the main task
    event,          \* app["shutdown_event"]: created (count), value, set() calls
    keyErrors,      \* shutdown triggers that found no shutdown_event in the container
    warnings,       \* "Shutting down!" warnings logged
    sleepLeft,      \* time units left of the listener's sleep
    slept,          \* time units the listener has slept since its warning
    kills,          \* os.kill(getpid(), SIGTERM) calls made by the listener
    sigPending,     \* termination signals delivered to the process, not yet handled
    extSignals,     \* external termination signals sent so far
    served,         \* the server has begun accepting connections
    runOutcome      \* how run() ended: "none" while it has not

inputVars == << main, appArg, callerRoutes >>
appVars == << appCreated, appKeys, resources, named, cleanup_ctx >>
hookVars == << exits, tdBegun, tdDone, errors >>
taskVars == << coro, task, mainRan >>
listenerVars == << event, keyErrors, warnings, sleepLeft, slept, kills >>
signalVars == << sigPending, extSignals >>
resultVars == << served, runOutcome >>

vars == << inputVars, pc, appVars, hookVars, taskVars, listenerVars, signalVars,
           resultVars >>

(***************************************************************************)
(* Bounds of the model.                                                    *)
(***************************************************************************)
MaxCallerRoutes == 2
MaxSets == 2
MaxExtSignals == 1

\* asyncio.sleep(1): the grace period of shutdown_listener
GracePeriod == 1

(***************************************************************************)
(* Routes.  A route's identity is its (method, path) pair.  "*" is         *)
(* aiohttp's METH_ANY.                                                     *)
(***************************************************************************)
\* a web.RouteDef of a route table
Route(m, p) == [kind |-> "RouteDef", method |-> m, path |-> p]

\* server.routes: the default route table imported at line 19
DefaultRoutes == << Route("GET", "/status"), Route("GET", "/config") >>

\* routes a caller may have put on its own application: the two defaults,
\* a route on a path of its own, and on the path of a default a route with
\* another method and a catch-all route
CallerRouteUniverse ==
    { Route("GET", "/status"), Route("GET", "/config"),
      Route("GET", "/x"), Route("POST", "/status"), Route("*", "/status") }

SeqSet(s) == { s[i] : i \in 1..Len(s) }

\* UrlDispatcher.add_resource: only the last added resource is reused
add_resource(res, p) ==
    IF Len(res) > 0 /\ res[Len(res)].path = p
    THEN res
    ELSE Append(res, [path |-> p, methods |-> {}])

\* Resource.add_route raises RuntimeError when the resource already has a
\* route with the same method or with METH_ANY
RouteRaises(res, r) ==
    LET rs == add_resource(res, r.path)
    IN  \E m \in rs[Len(rs)].methods : m = r.method \/ m = "*"

\* a registration that adds the resource and loses the route
add_route_lost(res, r) == add_resource(res, r.path)

add_route(res, r) ==
    LET rs == add_resource(res, r.path)
    IN  [rs EXCEPT ![Len(rs)].methods = @ \cup {r.method}]

\* app.add_routes(defs): registers the routes one by one and stops at the
\* first RuntimeError, leaving what it has registered so far
RECURSIVE add_routes(_, _)
add_routes(res, defs) ==
    IF defs = << >>
    THEN [ok |-> TRUE, resources |-> res]
    ELSE IF RouteRaises(res, Head(defs))
         THEN [ok |-> FALSE, resources |-> add_resource(res, Head(defs).path)]
         ELSE add_routes(add_route(res, Head(defs)), Tail(defs))

\* the router of an application on which the caller registered rs
RouterOf(rs) == add_routes(<< >>, rs)

BoundedSeqs(S, n) == UNION { [1..k -> S] : k \in 0..n }

\* applications a caller can have built: every registration went through
CallerApps == { rs \in BoundedSeqs(CallerRouteUniverse, MaxCallerRoutes) : RouterOf(rs).ok }

IdsOfRoutes(rs) == { << rs[i].method, rs[i].path >> : i \in 1..Len(rs) }
DefaultIds == IdsOfRoutes(DefaultRoutes)
CallerIds == IdsOfRoutes(callerRoutes)
ConflictingIds == CallerIds \cap DefaultIds

\* line 61 listing the first default route only
NamedFirst(defs) == { << defs[1].method, defs[1].path >> }

\* line 61: the pairs the DuplicateRouteError message lists
NamedResources(defs) ==
    { << defs[i].method, defs[i].path >> :
        i \in { j \in 1..Len(defs) : defs[j].kind = "RouteDef" } }

(***************************************************************************)
(* Values a caller can pass as main.                                       *)
(***************************************************************************)
\* "noncoro" is a value that is neither a coroutine object nor a generator
\* object (a function, None, a number); "generator" is a generator object
\* that has not been started; the other three are coroutine objects
MainKinds == { "noncoro", "generator", "fresh", "started", "finished" }

\* line 47: asyncio.coroutines.iscoroutine(main).  Before Python 3.12 the
\* types it accepts include types.GeneratorType, so a generator object
\* passes as well as a coroutine object in any state.
iscoroutine(m) == m # "noncoro"

\* line 60: coroutine.close(), as the set of its outcomes.  A coroutine that
\* has not started or has finished is closed without running; a started one
\* gets GeneratorExit thrown in and either ends, or catches it and awaits
\* again, in which case close() raises RuntimeError and leaves it suspended,
\* or raises an exception of its own in response, which close() lets out
\* with the coroutine ended.
close(c) ==
    CASE c = "finished" -> { [coro |-> "finished", raises |-> "none"] }
      [] c = "started" -> { [coro |-> "closed", raises |-> "none"],
                            [coro |-> "started", raises |-> "RuntimeError"],
                            [coro |-> "closed", raises |-> "ValueError"],
                            [coro |-> "closed", raises |-> "SystemExit"] }
      [] OTHER -> { [coro |-> "closed", raises |-> "none"] }


Hooks == { "run_main", "run_listener" }

\* cancelSent: task.cancel() was called while the task had not ended
NoTask == [state |-> "none", exc |-> "none", cancelReq |-> FALSE, cancelSent |-> FALSE]

Init ==
    /\ main \in MainKinds
    /\ appArg \in { "none", "app" }
    /\ callerRoutes \in CallerApps
    /\ (appArg = "none" => callerRoutes = << >>)
    /\ pc = "start"
    /\ coro = main
    /\ appCreated = FALSE
    /\ appKeys = {}
    /\ resources = RouterOf(callerRoutes).resources
    /\ named = {}
    /\ cleanup_ctx = << >>
    /\ exits = << >>
    /\ tdBegun = << >>
    /\ tdDone = << >>
    /\ errors = << >>
    /\ task = [h \in Hooks |-> NoTask]
    /\ mainRan = FALSE
    /\ event = [created |-> 0, value |-> FALSE, sets |-> 0]
    /\ keyErrors = 0
    /\ warnings = 0
    /\ sleepLeft = 0
    /\ slept = 0
    /\ kills = 0
    /\ sigPending = 0
    /\ extSignals = 0
    /\ served = FALSE
    /\ runOutcome = "none"

(***************************************************************************)
(* run(), lines 47-71: the synchronous part.                               *)
(***************************************************************************)
\* lines 47-48
run_validate ==
    /\ pc = "start"
    /\ IF iscoroutine(main)
       THEN /\ pc' = "container"
            /\ runOutcome' = runOutcome
       ELSE /\ pc' = "raised"
            /\ runOutcome' = "ValueError"
    /\ UNCHANGED << inputVars, appVars, hookVars, taskVars, listenerVars, signalVars,
                    served >>

\* lines 51-54
run_container ==
    /\ pc = "container"
    /\ appCreated' = (appArg = "none")
    /\ appKeys' = appKeys \cup { "main", "path" }
    /\ pc' = "routes"
    /\ UNCHANGED << inputVars, resources, named, cleanup_ctx, hookVars, taskVars,
                    listenerVars, signalVars, resultVars >>

\* lines 57-64
run_add_routes ==
    /\ pc = "routes"
    /\ LET r == add_routes(resources, DefaultRoutes)
       IN  /\ resources' = r.resources
           /\ IF r.ok
              THEN /\ pc' = "register"
                   /\ UNCHANGED << coro, named, runOutcome >>
              ELSE /\ \E c \in close(coro) :
                        /\ coro' = c.coro
                        /\ IF c.raises = "none"
                           THEN /\ named' = NamedResources(DefaultRoutes)
                                /\ runOutcome' = "DuplicateRouteError"
                           ELSE /\ named' = named
                                /\ runOutcome' = c.raises
                   /\ pc' = "raised"
    /\ UNCHANGED << inputVars, appCreated, appKeys, cleanup_ctx, hookVars, task,
                    mainRan, listenerVars, signalVars, served >>

\* the two registrations of lines 70-71 exchanged
RegistrationSwapped == << "run_listener", "run_main" >>

\* lines 70-71: the order in which the hooks are registered
Registration == << "run_main", "run_listener" >>

\* line 67: the routes setup_swagger adds to the router, in its order
SwaggerRoutes ==
    << Route("GET", "/api/doc"), Route("GET", "/api/doc/"),
       Route("GET", "/api/doc/swagger.json") >>

\* line 67: the static resource setup_swagger adds after its routes
SwaggerStatic == [path |-> "/api/doc/swagger_static", methods |-> { "GET", "HEAD" }]

\* line 67: the keys setup_swagger stores in the application
SwaggerKeys == { "SWAGGER_DEF_CONTENT", "SWAGGER_TEMPLATE_CONTENT" }

\* line 67: setup_swagger(app, ui_version=3) on the router
setup_swagger(res) ==
    LET r == add_routes(res, SwaggerRoutes)
    IN  [ok |-> r.ok,
         resources |-> IF r.ok THEN Append(r.resources, SwaggerStatic) ELSE r.resources]

\* lines 66-72: document the routes, register the hooks, enter web.run_app;
\* a RuntimeError of the router at line 67 leaves run as it is
run_register ==
    /\ pc = "register"
    /\ LET s == setup_swagger(resources)
       IN  /\ resources' = s.resources
           /\ IF s.ok
              THEN /\ appKeys' = appKeys \cup SwaggerKeys
                   /\ cleanup_ctx' = cleanup_ctx \o Registration
                   /\ pc' = "startup"
                   /\ runOutcome' = runOutcome
              ELSE /\ UNCHANGED << appKeys, cleanup_ctx >>
                   /\ pc' = "raised"
                   /\ runOutcome' = "RuntimeError"
    /\ UNCHANGED << inputVars, appCreated, named, hookVars, taskVars, listenerVars,
                    signalVars, served >>

(***************************************************************************)
(* web.run_app, line 72: the application's startup runs the hooks of       *)
(* cleanup_ctx in order, each up to its yield, with no suspension in       *)
(* between; then the server binds and serves.                              *)
(***************************************************************************)
\* the hook whose startup step runs next
StartupNext ==
    IF pc = "startup" /\ Len(exits) < Len(cleanup_ctx)
    THEN cleanup_ctx[Len(exits) + 1]
    ELSE "none"

\* a startup step that awaits main instead of scheduling it
run_main_startup_awaiting ==
    /\ StartupNext = "run_main"
    /\ task["run_main"].state \in { "done", "failed", "cancelled" }
    /\ exits' = Append(exits, "run_main")
    /\ UNCHANGED << inputVars, pc, appVars, tdBegun, tdDone, errors, taskVars,
                    listenerVars, signalVars, resultVars >>

\* lines 74-77: run_main up to its yield
run_main_startup ==
    /\ StartupNext = "run_main"
    /\ task' = [task EXCEPT !["run_main"] = [NoTask EXCEPT !.state = "scheduled"]]
    /\ exits' = Append(exits, "run_main")
    /\ UNCHANGED << inputVars, pc, appVars, tdBegun, tdDone, errors, coro, mainRan,
                    listenerVars, signalVars, resultVars >>

\* lines 85-89: run_listener up to its yield
run_listener_startup ==
    /\ StartupNext = "run_listener"
    /\ appKeys' = appKeys \cup { "shutdown_event" }
    /\ event' = [event EXCEPT !.created = @ + 1, !.value = FALSE]
    /\ task' = [task EXCEPT !["run_listener"] = [NoTask EXCEPT !.state = "scheduled"]]
    /\ exits' = Append(exits, "run_listener")
    /\ UNCHANGED << inputVars, pc, appCreated, resources, named, cleanup_ctx, tdBegun,
                    tdDone, errors, coro, mainRan, keyErrors, warnings, sleepLeft,
                    slept, kills, signalVars, resultVars >>

\* every startup step is done: the runner goes on to bind its sites
StartupComplete == Len(exits) = Len(cleanup_ctx)

server_bind ==
    /\ pc = "startup"
    /\ StartupComplete
    /\ pc' = "binding"
    /\ UNCHANGED << inputVars, appVars, hookVars, taskVars, listenerVars, signalVars,
                    resultVars >>

\* the sites are started: the server accepts connections
server_serve ==
    /\ pc = "binding"
    /\ pc' = "serving"
    /\ served' = TRUE
    /\ UNCHANGED << inputVars, appVars, hookVars, taskVars, listenerVars, signalVars,
                    runOutcome >>

\* startup steps that suspend before their yield, so that tasks run between
\* the two hooks
SuspendedInStartup == pc \in { "startup", "binding", "serving", "draining", "td_wait" }

\* the coroutine driving the application is suspended: the event loop runs
\* the background tasks, the request handlers and the signal callbacks
Suspended == pc \in { "binding", "serving", "draining", "td_wait" }

(***************************************************************************)
(* The main task: the caller's coroutine, run by the task that run_main    *)
(* created at line 75.  What the coroutine does is the caller's choice.    *)
(***************************************************************************)
\* a task that has ended: done, failed with exc, or cancelled
Ended(t, st, e) == [t EXCEPT !.state = st, !.exc = e, !.cancelReq = FALSE]

MainTask == task["run_main"]
ListenerTask == task["run_listener"]

\* the first step of a task that was cancelled before it: CancelledError is
\* thrown into the coroutine; one that was started before receives it where
\* it is suspended and its body reacts, one that was not ends without running
FirstStepCancelled ==
    /\ task["run_main"].state = "scheduled"
    /\ task["run_main"].cancelReq
    /\ coro = "started"

\* the body of main takes a step
MainSteps == task["run_main"].state = "running" \/ FirstStepCancelled

\* first step of the task on a coroutine it can run
main_task_start ==
    /\ Suspended
    /\ MainTask.state = "scheduled"
    /\ ~MainTask.cancelReq
    /\ coro \in { "fresh", "started", "generator" }
    /\ task' = [task EXCEPT !["run_main"].state = "running"]
    /\ coro' = "running"
    /\ mainRan' = TRUE
    /\ UNCHANGED << inputVars, pc, appVars, hookVars, listenerVars, signalVars,
                    resultVars >>

\* first step of the task on a coroutine that was already awaited: the
\* coroutine cannot be run again and the task ends with RuntimeError
main_task_reuse ==
    /\ Suspended
    /\ MainTask.state = "scheduled"
    /\ coro \in { "started", "finished" }
    /\ task' = [task EXCEPT !["run_main"] = Ended(@, "failed", "RuntimeError")]
    /\ coro' = "finished"
    /\ UNCHANGED << inputVars, pc, appVars, hookVars, mainRan, listenerVars,
                    signalVars, resultVars >>

\* main returns
main_returns ==
    /\ Suspended
    /\ MainSteps
    /\ task' = [task EXCEPT !["run_main"] = Ended(@, "done", "none")]
    /\ coro' = "finished"
    /\ mainRan' = TRUE
    /\ UNCHANGED << inputVars, pc, appVars, hookVars, listenerVars,
                    signalVars, resultVars >>

\* a failure of main that also stops the server
main_raises_stops ==
    /\ Suspended
    /\ MainSteps
    /\ task' = [task EXCEPT !["run_main"] = Ended(@, "failed", "ValueError")]
    /\ coro' = "finished"
    /\ mainRan' = TRUE
    /\ pc' = IF pc \in { "binding", "serving" } THEN "draining" ELSE pc
    /\ UNCHANGED << inputVars, appVars, hookVars, listenerVars,
                    signalVars, resultVars >>

\* main raises an exception that is not a cancellation
main_raises ==
    /\ Suspended
    /\ MainSteps
    /\ task' = [task EXCEPT !["run_main"] = Ended(@, "failed", "ValueError")]
    /\ coro' = "finished"
    /\ mainRan' = TRUE
    /\ UNCHANGED << inputVars, pc, appVars, hookVars, listenerVars,
                    signalVars, resultVars >>

\* main raises SystemExit (sys.exit) or KeyboardInterrupt: the task keeps
\* the exception and the event loop lets it out at once.  A server loop
\* that is running ends without a signal and run_app goes on to its
\* cleanup; when the loop is already running the cleanup, the exception
\* leaves the cleanup where it stands and run_app with it: the hooks that
\* are left are not resumed.
main_exits ==
    /\ Suspended
    /\ MainSteps
    /\ task' = [task EXCEPT !["run_main"] = Ended(@, "failed", "SystemExit")]
    /\ coro' = "finished"
    /\ mainRan' = TRUE
    /\ IF pc \in { "binding", "serving" }
       THEN /\ pc' = "draining"
            /\ runOutcome' = runOutcome
       ELSE /\ pc' = "aborted"
            /\ runOutcome' = "SystemExit"
    /\ UNCHANGED << inputVars, appVars, hookVars, listenerVars,
                    signalVars, served >>

\* main ends with asyncio.CancelledError though nobody cancelled its task
\* (it raises it, or awaits something that was cancelled): the task is
\* cancelled
main_cancels_itself ==
    /\ Suspended
    /\ MainTask.state = "running"
    /\ ~MainTask.cancelReq
    /\ task' = [task EXCEPT !["run_main"] = Ended(@, "cancelled", "none")]
    /\ coro' = "finished"
    /\ UNCHANGED << inputVars, pc, appVars, hookVars, mainRan, listenerVars,
                    signalVars, resultVars >>

\* the cancellation requested at line 79 ends the task
main_cancelled ==
    /\ Suspended
    /\ MainTask.state \in { "scheduled", "running" }
    /\ MainTask.cancelReq
    /\ coro # "finished"
    /\ task' = [task EXCEPT !["run_main"] = Ended(@, "cancelled", "none")]
    /\ coro' = "finished"
    /\ UNCHANGED << inputVars, pc, appVars, hookVars, mainRan, listenerVars,
                    signalVars, resultVars >>

\* main catches the cancellation and goes on running
main_cancel_ignored ==
    /\ Suspended
    /\ MainSteps
    /\ MainTask.cancelReq
    /\ task' = [task EXCEPT !["run_main"].cancelReq = FALSE,
                            !["run_main"].state = "running"]
    /\ coro' = "running"
    /\ mainRan' = TRUE
    /\ UNCHANGED << inputVars, pc, appVars, hookVars, listenerVars, signalVars,
                    resultVars >>

(***************************************************************************)
(* asyncio.Event, and the shutdown trigger that sets it.                   *)
(***************************************************************************)
\* an event whose set() flips the value
event_toggle(e) == [e EXCEPT !.value = ~@, !.sets = @ + 1]

\* Event.set(): sets the value; a second call finds it set
event_set(e) == [e EXCEPT !.value = TRUE, !.sets = @ + 1]

\* a request handler or main sets app["shutdown_event"]
shutdown_trigger ==
    /\ Suspended
    /\ pc \in { "serving", "draining" } \/ MainTask.state = "running"
    /\ event.sets + keyErrors < MaxSets
    /\ IF "shutdown_event" \in appKeys
       THEN /\ event' = event_set(event)
            /\ keyErrors' = keyErrors
       ELSE /\ keyErrors' = keyErrors + 1
            /\ event' = event
    /\ UNCHANGED << inputVars, pc, appVars, hookVars, taskVars, warnings, sleepLeft,
                    slept, kills, signalVars, resultVars >>

(***************************************************************************)
(* shutdown_listener, lines 97-105.                                        *)
(***************************************************************************)
\* line 99: the event is not set, the task waits for it
listener_wait ==
    /\ Suspended
    /\ ListenerTask.state = "scheduled"
    /\ ~ListenerTask.cancelReq
    /\ ~event.value
    /\ task' = [task EXCEPT !["run_listener"].state = "waiting"]
    /\ UNCHANGED << inputVars, pc, appVars, hookVars, coro, mainRan, listenerVars,
                    signalVars, resultVars >>

\* a listener that clears the event once its wait has returned
listener_notified_clears ==
    /\ Suspended
    /\ ListenerTask.state \in { "scheduled", "waiting" }
    /\ ~ListenerTask.cancelReq
    /\ event.value
    /\ event' = [event EXCEPT !.value = FALSE]
    /\ warnings' = warnings + 1
    /\ sleepLeft' = GracePeriod
    /\ slept' = 0
    /\ task' = [task EXCEPT !["run_listener"].state = "grace"]
    /\ UNCHANGED << inputVars, pc, appVars, hookVars, coro, mainRan, keyErrors,
                    kills, signalVars, resultVars >>

\* lines 99-103: the wait returns, the warning is logged, the sleep begins
listener_notified ==
    /\ Suspended
    /\ ListenerTask.state \in { "scheduled", "waiting" }
    /\ ~ListenerTask.cancelReq
    /\ event.value
    /\ warnings' = warnings + 1
    /\ sleepLeft' = GracePeriod
    /\ slept' = 0
    /\ task' = [task EXCEPT !["run_listener"].state = "grace"]
    /\ UNCHANGED << inputVars, pc, appVars, hookVars, coro, mainRan, event, keyErrors,
                    kills, signalVars, resultVars >>

\* a time unit passes while the listener sleeps
tick ==
    /\ pc \in { "binding", "serving", "draining", "teardown", "td_wait" }
    /\ ListenerTask.state = "grace"
    /\ sleepLeft > 0
    /\ sleepLeft' = sleepLeft - 1
    /\ slept' = slept + 1
    /\ UNCHANGED << inputVars, pc, appVars, hookVars, taskVars, event, keyErrors,
                    warnings, kills, signalVars, resultVars >>

\* line 103 left out: no sleep before the signal
SleepSkipped(left) == TRUE

\* line 103: asyncio.sleep(1) returns once its time is over
SleepOver(left) == left = 0

\* a listener that sends its signal although it has been cancelled
listener_kill_shielded ==
    /\ Suspended
    /\ ListenerTask.state = "grace"
    /\ SleepOver(sleepLeft)
    /\ kills' = kills + 1
    /\ sigPending' = sigPending + 1
    /\ task' = [task EXCEPT !["run_listener"] = Ended(@, "done", "none")]
    /\ UNCHANGED << inputVars, pc, appVars, hookVars, coro, mainRan, event, keyErrors,
                    warnings, sleepLeft, slept, extSignals, resultVars >>

\* line 105, and the return of the coroutine
listener_kill ==
    /\ Suspended
    /\ ListenerTask.state = "grace"
    /\ ~ListenerTask.cancelReq
    /\ SleepOver(sleepLeft)
    /\ kills' = kills + 1
    /\ sigPending' = sigPending + 1
    /\ task' = [task EXCEPT !["run_listener"] = Ended(@, "done", "none")]
    /\ UNCHANGED << inputVars, pc, appVars, hookVars, coro, mainRan, event, keyErrors,
                    warnings, sleepLeft, slept, extSignals, resultVars >>

\* the cancellation requested at line 91 ends the task at its await
listener_cancelled ==
    /\ Suspended
    /\ ListenerTask.state \in { "scheduled", "waiting", "grace" }
    /\ ListenerTask.cancelReq
    /\ task' = [task EXCEPT !["run_listener"] = Ended(@, "cancelled", "none")]
    /\ UNCHANGED << inputVars, pc, appVars, hookVars, coro, mainRan, listenerVars,
                    signalVars, resultVars >>

(***************************************************************************)
(* Termination signals and the end of the server loop.                     *)
(***************************************************************************)
\* an external SIGTERM / interrupt reaches the process while run_app has
\* its signal handlers installed
external_signal ==
    /\ pc \in { "binding", "serving", "draining", "teardown", "td_wait" }
    /\ extSignals < MaxExtSignals
    /\ extSignals' = extSignals + 1
    /\ sigPending' = sigPending + 1
    /\ UNCHANGED << inputVars, pc, appVars, hookVars, taskVars, listenerVars,
                    resultVars >>

\* the loop's signal callback raises GracefulExit, which ends the serving
\* loop: run_app begins to shut the server down
server_stop ==
    /\ pc \in { "binding", "serving" }
    /\ sigPending > 0
    /\ sigPending' = sigPending - 1
    /\ pc' = "draining"
    /\ UNCHANGED << inputVars, appVars, hookVars, taskVars, listenerVars, extSignals,
                    resultVars >>

\* a signal is handled while run_app shuts down: the handlers stay installed
\* until the runner's cleanup has ended, so the callback raises GracefulExit
\* out of the loop that runs the cleanup.  The cleanup is left where it
\* stands, the hooks that are left are not resumed, and run_app raises.
cleanup_aborted ==
    /\ pc \in { "draining", "td_wait" }
    /\ sigPending > 0
    /\ sigPending' = sigPending - 1
    /\ pc' = "aborted"
    /\ runOutcome' = "GracefulExit"
    /\ UNCHANGED << inputVars, appVars, hookVars, taskVars, listenerVars, extSignals,
                    served >>

\* the sites are stopped and the connections closed: the application's
\* cleanup begins
server_drained ==
    /\ pc = "draining"
    /\ pc' = "teardown"
    /\ UNCHANGED << inputVars, appVars, hookVars, taskVars, listenerVars, signalVars,
                    resultVars >>

(***************************************************************************)
(* Teardown: the application's cleanup resumes the hooks after their       *)
(* yield, last started first, each to its end before the next; what a      *)
(* hook raises is collected and raised when all of them have run.          *)
(***************************************************************************)
Reverse(s) == [i \in 1..Len(s) |-> s[Len(s) + 1 - i]]

\* the order in which the started hooks are resumed
TeardownOrder(ex) == Reverse(ex)

\* the hook whose teardown step runs next
TeardownNext ==
    IF pc = "teardown" /\ Len(tdDone) < Len(exits)
    THEN TeardownOrder(exits)[Len(tdDone) + 1]
    ELSE "none"

\* a teardown that takes every started task for an ended one
TerminalOrPending(t) == t.state # "none"

\* lines 80 / 92: the task is done, "await task" will not suspend
Terminal(t) == t.state \in { "done", "failed", "cancelled" }

\* "await task" left out of lines 81 / 93: the step goes on at once
AwaitSkipped(t) == TRUE

\* lines 81 / 93: "await task" resumes the hook when the task has ended
AwaitReturns(t) == Terminal(t)

\* lines 81 / 93: what "await task" raises once the task has ended
await_task(t) ==
    CASE t.state = "cancelled" -> "CancelledError"
      [] t.state = "failed" -> t.exc
      [] OTHER -> "none"

\* lines 82-83 / 94-95 left out
except_nothing(e) == e

\* lines 82-83 / 94-95: except asyncio.CancelledError: pass
except_CancelledError(e) == IF e = "CancelledError" THEN "none" ELSE e

\* what the teardown step of a hook lets out for its ended task
TeardownRaises(t) == except_CancelledError(await_task(t))

Raised(errs, e) == IF e = "none" THEN errs ELSE Append(errs, e)

\* lines 79-83 / 91-95 when the task has already ended: cancel() changes
\* nothing and the await returns or raises at once
TeardownEnded(h) ==
    /\ TeardownNext = h
    /\ Terminal(task[h])
    /\ tdBegun' = Append(tdBegun, h)
    /\ tdDone' = Append(tdDone, h)
    /\ errors' = Raised(errors, TeardownRaises(task[h]))
    /\ UNCHANGED << inputVars, pc, appVars, exits, taskVars, listenerVars, signalVars,
                    resultVars >>

\* lines 79-81 / 91-93: task.cancel(), then the hook suspends in "await task"
TeardownCancel(h) ==
    /\ TeardownNext = h
    /\ ~Terminal(task[h])
    /\ task' = [task EXCEPT ![h].cancelReq = TRUE, ![h].cancelSent = TRUE]
    /\ tdBegun' = Append(tdBegun, h)
    /\ pc' = "td_wait"
    /\ UNCHANGED << inputVars, appVars, exits, tdDone, errors, coro, mainRan,
                    listenerVars, signalVars, resultVars >>

\* lines 81-83 / 93-95: the awaited task has ended, the hook runs to its end
TeardownJoined(h) ==
    /\ pc = "td_wait"
    /\ tdBegun[Len(tdBegun)] = h
    /\ AwaitReturns(task[h])
    /\ tdDone' = Append(tdDone, h)
    /\ errors' = Raised(errors, TeardownRaises(task[h]))
    /\ pc' = "teardown"
    /\ UNCHANGED << inputVars, appVars, exits, tdBegun, taskVars, listenerVars,
                    signalVars, resultVars >>

run_listener_ended == TeardownEnded("run_listener")
run_listener_cancel == TeardownCancel("run_listener")
run_listener_joined == TeardownJoined("run_listener")
run_main_ended == TeardownEnded("run_main")
run_main_cancel == TeardownCancel("run_main")
run_main_joined == TeardownJoined("run_main")

\* what the application's cleanup raises when every hook has been resumed
CleanupRaises(errs) ==
    IF errs = << >> THEN "returned"
    ELSE IF Len(errs) = 1 THEN errs[1]
    ELSE "CleanupError"

\* line 72: how run_app, and so run, ends for what the cleanup raised.
\* SystemExit leaves the event loop and run_app as it is.  Any other
\* exception ends the coroutine in which run_app runs the cleanup, and what
\* run_app does with it depends on the aiohttp release: it awaits that
\* coroutine and the exception leaves run_app, or it cancels and gathers the
\* coroutine's task, hands the exception to loop.call_exception_handler and
\* returns.
run_app(e) ==
    IF e \in { "returned", "SystemExit" } THEN { e } ELSE { e, "returned" }

\* every started hook is torn down: run_app ends, and run with it
cleanup_done ==
    /\ pc = "teardown"
    /\ Len(tdDone) = Len(exits)
    /\ pc' = "stopped"
    /\ runOutcome' \in run_app(CleanupRaises(errors))
    /\ UNCHANGED << inputVars, appVars, hookVars, taskVars, listenerVars, signalVars,
                    served >>

Next ==
    \/ run_validate
    \/ run_container
    \/ run_add_routes
    \/ run_register
    \/ run_main_startup
    \/ run_listener_startup
    \/ server_bind
    \/ server_serve
    \/ main_task_start
    \/ main_task_reuse
    \/ main_returns
    \/ main_raises
    \/ main_exits
    \/ main_cancels_itself
    \/ main_cancelled
    \/ main_cancel_ignored
    \/ shutdown_trigger
    \/ listener_wait
    \/ listener_notified
    \/ tick
    \/ listener_kill
    \/ listener_cancelled
    \/ external_signal
    \/ server_stop
    \/ cleanup_aborted
    \/ server_drained
    \/ run_listener_ended
    \/ run_listener_cancel
    \/ run_listener_joined
    \/ run_main_ended
    \/ run_main_cancel
    \/ run_main_joined
    \/ cleanup_done

Spec == Init /\ [][Next]_vars

\* The event loop runs every task that is ready and every timer that is
\* due, and run_app goes on whenever it can; what main does, when a
\* shutdown is triggered and whether a signal arrives is left open.
Scheduled ==
    \/ run_validate
    \/ run_container
    \/ run_add_routes
    \/ run_register
    \/ run_main_startup
    \/ run_listener_startup
    \/ server_bind
    \/ server_serve
    \/ server_stop
    \/ cleanup_aborted
    \/ server_drained
    \/ listener_wait
    \/ listener_notified
    \/ tick
    \/ listener_kill
    \/ listener_cancelled
    \/ run_listener_ended
    \/ run_listener_cancel
    \/ run_listener_joined
    \/ run_main_ended
    \/ run_main_cancel
    \/ run_main_joined
    \/ cleanup_done

FairSpec == Init /\ [][Next]_vars /\ WF_vars(Scheduled)

\* The runs in which main honours cancellation: it never catches the
\* CancelledError of line 79 to go on running, and once cancelled it ends.
HonouringNext ==
    \/ run_validate
    \/ run_container
    \/ run_add_routes
    \/ run_register
    \/ run_main_startup
    \/ run_listener_startup
    \/ server_bind
    \/ server_serve
    \/ main_task_start
    \/ main_task_reuse
    \/ main_returns
    \/ main_raises
    \/ main_exits
    \/ main_cancels_itself
    \/ main_cancelled
    \/ shutdown_trigger
    \/ listener_wait
    \/ listener_notified
    \/ tick
    \/ listener_kill
    \/ listener_cancelled
    \/ external_signal
    \/ server_stop
    \/ cleanup_aborted
    \/ server_drained
    \/ run_listener_ended
    \/ run_listener_cancel
    \/ run_listener_joined
    \/ run_main_ended
    \/ run_main_cancel
    \/ run_main_joined
    \/ cleanup_done

\* a cancelled main task takes its next step: it ends
CancellationHonoured ==
    \/ main_cancelled
    \/ MainTask.cancelReq /\ main_task_reuse

HonouringSpec ==
    Init /\ [][HonouringNext]_vars /\ WF_vars(Scheduled) /\ WF_vars(CancellationHonoured)

(***************************************************************************)
(* Properties.                                                             *)
(***************************************************************************)
Begun(h) == h \in SeqSet(tdBegun)
TornDown(h) == h \in SeqSet(tdDone)
Started(h) == h \in SeqSet(exits)

\* C1: teardown runs in reverse registration order: the teardown step of
\* run_listener (cancel its task, await it to its end) has completed before
\* the teardown step of run_main begins, and no step begins while another
\* is still awaiting its task.
C1_TeardownReverseOrder ==
    /\ Begun("run_main") => TornDown("run_listener") /\ Terminal(ListenerTask)
    /\ Len(tdBegun) - Len(tdDone) \in { 0, 1 }
    /\ pc = "td_wait" => Len(tdBegun) = Len(tdDone) + 1
    /\ Len(tdBegun) = Len(tdDone) + 1 => pc \in { "td_wait", "aborted" }
    /\ pc = "stopped" => tdDone = << "run_listener", "run_main" >>

\* the listener's task was cancelled and joined by its teardown step, and
\* the teardown step of run_main is awaiting the main task
C1_Witness ==
    /\ pc = "td_wait"
    /\ tdBegun = << "run_listener", "run_main" >>
    /\ ListenerTask.state = "cancelled"
    /\ ListenerTask.cancelSent

\* C2: after validation, the startup step of run_main (main scheduled as a
\* task) completes before the startup step of run_listener (shutdown_event
\* created, listener task scheduled) begins, and both have completed before
\* the server binds and accepts connections.
C2_StartupOrder ==
    /\ Started("run_listener") => exits[1] = "run_main"
    /\ (event.created > 0 \/ ListenerTask.state # "none" \/ "shutdown_event" \in appKeys)
          => MainTask.state # "none"
    /\ (served \/ pc \in { "binding", "serving" })
          => exits = << "run_main", "run_listener" >>

\* the server accepts connections with both hooks started
C2_Witness ==
    /\ pc = "serving"
    /\ served
    /\ Len(exits) = 2
    /\ event.created = 1

\* C3 as claimed: when the main task has ended with an exception that is
\* not a cancellation, the teardown step of run_main lets that same
\* exception out (it is not swallowed, not turned into a cancellation or a
\* normal return), and it is what run raises once the teardown has completed.
C3_MainFailurePropagates ==
    main = "fresh"
       => /\ (TornDown("run_main") /\ MainTask.state = "failed")
                => /\ MainTask.exc \in { "ValueError", "SystemExit" }
                   /\ errors = << MainTask.exc >>
          /\ (pc = "stopped" /\ MainTask.state = "failed") => runOutcome = MainTask.exc

\* C4: when the shutdown notification was never set the listener task is
\* still alive at teardown and ends by the cancellation its teardown step
\* requests; a task that ended by cancellation makes its teardown step raise
\* nothing, and when both tasks ended so, run returns without an exception.
C4_CancellationIsNotAnError ==
    /\ (TornDown("run_listener") /\ ~event.value)
          => ListenerTask.state = "cancelled" /\ ListenerTask.cancelSent
    /\ (TornDown("run_listener") /\ ListenerTask.state = "cancelled")
          => ListenerTask.cancelSent
    /\ (\A h \in Hooks : TornDown(h) => task[h].state = "cancelled") => errors = << >>
    /\ (pc = "stopped" /\ \A h \in Hooks : task[h].state = "cancelled")
          => runOutcome = "returned"

\* both tasks were running when the server was told to stop, the event was
\* never set, both were cancelled and run returned
C4_Witness ==
    /\ pc = "stopped"
    /\ event.sets = 0
    /\ mainRan
    /\ \A h \in Hooks : task[h].state = "cancelled" /\ task[h].cancelSent
    /\ errors = << >>
    /\ runOutcome = "returned"

\* the order of the listener's steps, in every state
C5_Order ==
    /\ warnings <= 1
    /\ kills <= 1
    /\ warnings = 1 => event.value
    /\ ListenerTask.state = "grace"
          => warnings = 1 /\ kills = 0 /\ slept + sleepLeft = GracePeriod
    /\ kills = 1 => event.value /\ warnings = 1 /\ slept >= GracePeriod
    /\ kills = 1 <=> ListenerTask.state = "done"

\* C5: once the shutdown event is set while both hooks are running, the
\* listener logs one warning, sleeps the grace period and then sends the
\* termination signal exactly once (unless an external signal, or main
\* leaving the event loop with SystemExit, ends the server first); the
\* signal is never sent before the event is set nor before GracePeriod time
\* units of sleep.
C5_WarnSleepKill ==
    /\ []C5_Order
    /\ (event.value /\ pc \in { "binding", "serving" })
          ~> (kills = 1 \/ extSignals > 0 \/ MainTask.exc = "SystemExit")

\* the signal has been sent after the event was set and the grace period
\* slept, and it is the signal that stops the server
C5_Witness ==
    /\ pc = "draining"
    /\ kills = 1
    /\ extSignals = 0
    /\ warnings = 1
    /\ slept = GracePeriod
    /\ event.value

\* a set() call on an event that is already set changes nothing else
SecondSetIsNoOp ==
    (event.value /\ event'.sets = event.sets + 1)
       => /\ event'.value
          /\ UNCHANGED << inputVars, pc, appVars, hookVars, taskVars, keyErrors,
                          warnings, sleepLeft, slept, kills, signalVars, resultVars >>

\* C6: setting the shutdown event twice has the effect of setting it once:
\* the second set() leaves the state as it was, and however often the event
\* is set there is one warning, one grace period and one termination signal.
C6_ShutdownIdempotent ==
    /\ [](/\ warnings <= 1
          /\ kills <= 1
          /\ slept <= GracePeriod
          /\ (event.sets >= 1 => event.value)
          /\ Len(tdDone) <= Len(Registration))
    /\ [][SecondSetIsNoOp]_vars

\* the event was set twice and the run ended after one warning and one signal
C6_Witness ==
    /\ event.sets = 2
    /\ warnings = 1
    /\ kills = 1
    /\ pc = "stopped"

\* C7: for a main that is not a coroutine object (a plain function, a
\* generator object, any other value), run raises the validation error
\* (ValueError in the source) before anything else: no application is
\* created, the caller's application gets no key, no route and no hook, no
\* task is created and the server never binds or serves.
C7_InvalidMainRejectedFirst ==
    main \in { "noncoro", "generator" }
       => /\ pc \in { "start", "raised" }
          /\ pc = "raised" => runOutcome = "ValueError"
          /\ pc = "start" => runOutcome = "none"
          /\ ~appCreated
          /\ appKeys = {}
          /\ resources = RouterOf(callerRoutes).resources
          /\ cleanup_ctx = << >>
          /\ exits = << >>
          /\ \A h \in Hooks : task[h].state = "none"
          /\ event.created = 0
          /\ ~served

\* C8: a coroutine object that was already started or already awaited is
\* rejected with the validation error and is never scheduled as the main
\* task.
C8_StartedCoroutineRejected ==
    main \in { "started", "finished" }
       => /\ pc \in { "start", "raised" }
          /\ pc = "raised" => runOutcome = "ValueError"
          /\ MainTask.state = "none"

\* C9: whenever the caller's routes share a (method, path) identity with
\* the default routes, run fails with DuplicateRouteError, the coroutine is
\* closed without having run, no task is created and the server never serves.
C9_SharedIdentityRejected ==
    (main = "fresh" /\ ConflictingIds # {})
       => /\ pc \in { "start", "container", "routes", "raised" }
          /\ pc = "raised"
                => runOutcome = "DuplicateRouteError" /\ coro \in { "closed", "finished" }
          /\ ~mainRan
          /\ \A h \in Hooks : task[h].state = "none"
          /\ ~served

MergeFailed == pc = "raised" /\ runOutcome = "DuplicateRouteError"

\* C10 as claimed: when the merge fails on a shared identity, the pairs
\* named in the DuplicateRouteError are exactly the identities present in
\* both the caller's routes and the defaults.
C10_NamedAreTheConflicts ==
    (main = "fresh" /\ MergeFailed /\ ConflictingIds # {}) => named = ConflictingIds

\* C10, amended: the pairs named in the DuplicateRouteError are the
\* identities of all default routes: every conflicting pair is named, and
\* so is every default route that does not conflict.
C10_NamedAreTheDefaults ==
    /\ MergeFailed => named = DefaultIds /\ ConflictingIds \subseteq named
    /\ ~MergeFailed => named = {}

\* the merge failed on one shared identity and the error names more
C10_Witness ==
    /\ MergeFailed
    /\ Cardinality(ConflictingIds) = 1
    /\ named # ConflictingIds

\* how often the router holds a route of this identity
Count(res, id) ==
    Cardinality({ i \in 1..Len(res) : res[i].path = id[2] /\ id[1] \in res[i].methods })

PathsOf(rs) == { rs[i].path : i \in 1..Len(rs) }

\* the resource the caller registered last is on the path of the first
\* default route and holds a catch-all route: the first default goes to
\* that resource, where the router refuses it
CatchAllLast ==
    LET rs == RouterOf(callerRoutes).resources
    IN  /\ Len(rs) > 0
        /\ rs[Len(rs)].path = DefaultRoutes[1].path
        /\ "*" \in rs[Len(rs)].methods

\* the merge of line 58 has been attempted
MergeTried == pc \notin { "start", "container", "routes" }

\* the router holds every default once and every caller route as before
MergedTable ==
    /\ \A id \in DefaultIds : Count(resources, id) = 1
    /\ \A id \in CallerIds :
          Count(resources, id) = Count(RouterOf(callerRoutes).resources, id)
    /\ \A id \in CallerIds : Count(resources, id) >= 1

Detected(rs) == ~add_routes(RouterOf(rs).resources, DefaultRoutes).ok

\* rs holds the routes of qs, registered in some order
SameRoutes(rs, qs) ==
    /\ Len(rs) = Len(qs)
    /\ \A r \in CallerRouteUniverse :
          Cardinality({ i \in 1..Len(rs) : rs[i] = r })
             = Cardinality({ i \in 1..Len(qs) : qs[i] = r })

\* C12 as claimed: conflict detection does not depend on the order in which
\* the caller registered its routes: when the caller's routes share an
\* identity with the defaults, the merge of this run detects a conflict
\* exactly if it does for every other order of the same routes.
C12_DetectionIndependentOfOrder ==
    (main = "fresh" /\ MergeTried /\ ConflictingIds # {})
       => \A rs \in CallerApps :
             SameRoutes(rs, callerRoutes)
                => ((runOutcome = "DuplicateRouteError") <=> Detected(rs))

\* the startup step of run_main has only scheduled the task
MainOnlyScheduled ==
    (pc = "startup" /\ Started("run_main"))
       => /\ MainTask.state = "scheduled"
          /\ ~mainRan
          /\ coro = main

\* C13: the Main Task Runner never blocks server startup: its startup step
\* only schedules the main task and returns, and once startup has begun the
\* server comes to accept connections whether or not main ever terminates,
\* unless a termination signal arrives, or main leaves the event loop with
\* SystemExit, first.
C13_MainNeverBlocksStartup ==
    /\ [] MainOnlyScheduled
    /\ [] (pc = "serving" => Started("run_main") /\ Started("run_listener"))
    /\ (pc = "startup")
          ~> (served \/ extSignals > 0 \/ kills > 0 \/ MainTask.exc = "SystemExit")

\* the server accepts connections while main is still running
C13_Witness ==
    /\ pc = "serving"
    /\ served
    /\ MainTask.state = "running"
    /\ ListenerTask.state = "waiting"
    /\ sigPending = 0

\* the server loop has ended: the run is draining, tearing down or stopped
LoopEnded == pc \in { "draining", "teardown", "td_wait", "stopped", "aborted" }

\* C14 as claimed: a failure of the main task does not by itself change the
\* orchestrator's state: after main has ended with an exception the server
\* loop ends, and teardown runs, only once a termination trigger has arrived.
C14_FailureDoesNotStopTheServer ==
    (main = "fresh" /\ MainTask.state = "failed" /\ LoopEnded) => extSignals + kills > 0

\* the step in which the main task ends with an exception other than
\* SystemExit and KeyboardInterrupt
MainFails ==
    /\ task["run_main"].state # "failed"
    /\ task'["run_main"].state = "failed"
    /\ task'["run_main"].exc # "SystemExit"

\* a failure of main changes nothing but the task and its coroutine
FailureChangesNothingElse ==
    MainFails
       => /\ pc' = pc
          /\ hookVars' = hookVars
          /\ task'["run_listener"] = task["run_listener"]
          /\ listenerVars' = listenerVars
          /\ signalVars' = signalVars
          /\ resultVars' = resultVars

\* C14, amended: a failure of the main task with an exception other than
\* SystemExit and KeyboardInterrupt while the server runs does not by itself
\* change the orchestrator's state: the server stays up, the listener task
\* is untouched, no teardown step runs before a termination trigger has
\* arrived, and the exception is observed only by the task's teardown step.
\* (SystemExit and KeyboardInterrupt leave the event loop at once and end
\* the server loop without a trigger.)
C14_OrdinaryFailureDoesNotStopTheServer ==
    /\ [][FailureChangesNothingElse]_vars
    /\ [] (pc \in { "binding", "serving" }
              => tdBegun = << >> /\ errors = << >> /\ runOutcome = "none")
    /\ [] (LoopEnded => extSignals + kills > 0 \/ MainTask.exc = "SystemExit")
    /\ [] (MainTask.state = "failed" /\ ~TornDown("run_main") => errors = << >>)
    /\ [] (\A h \in Hooks : task[h].state = "failed" => h = "run_main")

\* main has failed, the server still serves and the listener still waits
C14_Witness ==
    /\ pc = "serving"
    /\ MainTask.state = "failed"
    /\ MainTask.exc = "ValueError"
    /\ ListenerTask.state = "waiting"
    /\ tdBegun = << >>
    /\ sigPending = 0

\* a shutdown trigger has arrived while both tasks are supervised
SignalArrived == pc \in { "binding", "serving" } /\ sigPending > 0
NotificationSet == pc \in { "binding", "serving" } /\ event.value

\* the drain sequence: listener teardown, then main teardown
Drained ==
    /\ tdBegun = << "run_listener", "run_main" >>
    /\ tdDone = << "run_listener", "run_main" >>

\* C15 as claimed: both shutdown triggers converge on the same drain
\* sequence and the process eventually stops: with a fair event loop and
\* tasks that honour cancellation, an external termination signal as well as
\* the setting of the shutdown notification leads to the stopped state
\* (unless main itself leaves with SystemExit), which is reached only
\* through the listener's teardown followed by main's teardown.
C15_TriggersConverge ==
    /\ (main = "fresh" /\ SignalArrived)
          ~> (pc = "stopped" \/ MainTask.exc = "SystemExit")
    /\ (main = "fresh" /\ NotificationSet)
          ~> (pc = "stopped" \/ MainTask.exc = "SystemExit")
    /\ [] (pc = "stopped" => Drained)

\* the event object of the container is the one created at startup
EventKept == event.created > 0 => event'.created = event.created

\* a set event is set in the next state
EventStaysSet == event.value => event'.value

\* C16: the shutdown primitive is monotonic: the event is created exactly
\* once in a run, by the listener's startup step, the container's
\* shutdown_event is never replaced by another object, and once the event is
\* set it stays set in every later state.
C16_EventMonotonic ==
    /\ [] (event.created <= 1)
    /\ [] (event.created = 1 <=> Started("run_listener"))
    /\ [] (event.created = 1 <=> "shutdown_event" \in appKeys)
    /\ [] (event.sets > 0 => event.value)
    /\ [][EventKept]_vars
    /\ [][EventStaysSet]_vars

\* the event, set during the run, is still set when the run has stopped
C16_Witness ==
    /\ pc = "stopped"
    /\ event.created = 1
    /\ event.sets > 0
    /\ event.value
    /\ warnings = 1

\* run has ended after the server loop: the cleanup was completed or left
RunOver == pc \in { "stopped", "aborted" }

\* C17 as claimed: in every run that reaches teardown the main task is sent
\* a cancellation request and awaited before the run is over, whatever the
\* listener did before: main's teardown step is never skipped (unless main
\* itself leaves with SystemExit), it begins once the listener's step has
\* ended, it cancels a main task that has not ended, and it ends only when
\* that task has.
C17_MainTeardownNeverSkipped ==
    /\ (main = "fresh" /\ RunOver /\ MainTask.exc # "SystemExit")
          => Begun("run_main") /\ TornDown("run_main")
    /\ Begun("run_main") => TornDown("run_listener")
    /\ (Begun("run_main") /\ ~Terminal(MainTask)) => MainTask.cancelSent
    /\ TornDown("run_main") => Terminal(MainTask)
    /\ MainTask.cancelSent => Begun("run_main")

\* a shutdown trigger (main or a request handler) can run in this state
TriggerCanRun ==
    /\ Suspended
    /\ pc \in { "serving", "draining" } \/ MainTask.state = "running"

\* C18: in every reachable state in which the main task has executed a step
\* or in which a shutdown trigger can run, the container already holds
\* shutdown_event: no trigger ever finds the key missing, because both
\* startup steps are done before any task is given a step.
C18_EventHeldBeforeAnyStep ==
    /\ mainRan => "shutdown_event" \in appKeys
    /\ MainTask.state \notin { "none", "scheduled" } => "shutdown_event" \in appKeys
    /\ ListenerTask.state \notin { "none", "scheduled" } => "shutdown_event" \in appKeys
    /\ TriggerCanRun => "shutdown_event" \in appKeys
    /\ keyErrors = 0

\* main has run and set the event before the server began to serve
C18_Witness ==
    /\ pc = "binding"
    /\ mainRan
    /\ MainTask.state = "running"
    /\ event.sets = 1
    /\ "shutdown_event" \in appKeys

\* no signal is sent by a listener whose teardown step has begun
NoKillOnceCancelled ==
    (Begun("run_listener") \/ ListenerTask.cancelSent) => kills' = kills

\* C19: however the shutdown notification interleaves with an external
\* termination signal, the listener sends at most one termination signal and
\* none once its teardown step has begun or ended; a listener whose teardown
\* step begins during the grace period is cancelled, has sent no signal, and
\* its teardown step raises nothing.
C19_AtMostOneSignal ==
    /\ [] (kills <= 1)
    /\ [] (kills = 1 <=> ListenerTask.state = "done")
    /\ [][NoKillOnceCancelled]_vars
    /\ [] (ListenerTask.cancelSent => kills = 0)
    /\ [] (TornDown("run_listener") /\ ListenerTask.cancelSent
              => ListenerTask.state = "cancelled")
    /\ [] (TornDown("run_listener") /\ ~Begun("run_main") => errors = << >>)

\* the event was set, an external signal began the teardown during the grace
\* period, and the listener was cancelled without sending its signal
C19_Witness ==
    /\ extSignals = 1
    /\ event.value
    /\ warnings = 1
    /\ kills = 0
    /\ TornDown("run_listener")
    /\ ListenerTask.state = "cancelled"
    /\ errors = << >>

\* the task of hook h has ended and takes no further step
TaskOver(h) ==
    /\ task[h].state \in { "done", "failed", "cancelled" }
    /\ ~task[h].cancelReq

\* C20: whenever the run is stopped, both supervised tasks are in a terminal
\* state (cancelled, completed or failed) and neither is still running,
\* whether the task was cancelled by its teardown step, had returned before
\* it (the teardown step then raises nothing) or had already failed.
C20_StoppedMeansTasksOver ==
    pc = "stopped"
       => /\ \A h \in Hooks : TaskOver(h)
          /\ coro = "finished" \/ ~mainRan
          /\ (\A h \in Hooks : task[h].state \in { "done", "cancelled" })
                => errors = << >> /\ runOutcome = "returned"
          /\ MainTask.state = "failed" => errors = << MainTask.exc >>

\* a stopped run both of whose tasks had returned before their teardown
C20_Witness ==
    /\ pc = "stopped"
    /\ MainTask.state = "done"
    /\ ListenerTask.state = "done"
    /\ \A h \in Hooks : ~task[h].cancelSent
    /\ errors = << >>

====
